---- MODULE Spec2Model ----
(***************************************************************************)
(* Model of the recurrence engine of the task scheduler (package taskdate, *)
(* function NextDate and its helpers) and of the HTTP handlers of package *)
(* api that call it and change the task store.                             *)
(*                                                                         *)
(* Strings are sequences of one-character strings, so that splitting,      *)
(* number parsing and date parsing/formatting are computed character by    *)
(* character as the Go code does.  An instant is a record [day, tod]: the  *)
(* number of days since 1970-01-01 and the time elapsed within that day.   *)
(* Dates produced by time.Parse and time.Date are instants with tod = 0.   *)
(* Loops of NextDate are modelled one iteration per step; iter changes     *)
(* with every iteration, so that an iteration that leaves the running date *)
(* where it was is still a step.                                           *)
(***************************************************************************)
EXTENDS Integers, Sequences, FiniteSets, TLC

\* --------------------------------------------------------------------- state
VARIABLES
    now,       \* argument now of NextDate
    dstart,    \* argument dstart
    repeat,    \* argument repeat
    pc,        \* "call", a loop of NextDate ("y", "d", "w", "m"), "done",
               \* or "horizon" (scan cut off after MaxYear)
    date,      \* the running date (day number)
    interval,  \* every-N-days interval
    dmap,      \* weekdays of a weekly rule
    month,     \* months of a monthly rule
    days,      \* ordered day list of a monthly rule
    result,    \* returned string
    err,       \* TRUE when errForamt is returned
    iter,      \* parity of the number of loop iterations executed
    store,     \* table scheduler: id -> row
    nextId,    \* next AUTOINCREMENT id
    dones,     \* number of requests handleDoneTask has taken
    clock,     \* time.Now() of the server
    todoPassword, \* environment variable TODO_PASSWORD ("" = not set)
    req,       \* the request being served, or the last one served
    status,    \* status line of its response (0 = nothing written yet)
    hpc,       \* "idle", the handler that waits for NextDate, or "sent"
    task,      \* the handler's local task
    conc       \* a request served by another goroutine meanwhile, its status

\* ------------------------------------------------------------------ bounds
\* Last calendar year the running date of a scan may lie in; a scan that
\* leaves it is cut off in the state pc = "horizon".
MaxYear == 2028
\* Largest time-of-day value of the instant now (0 = midnight).
MaxTod == 1
\* Number of rows the store may take.
MaxTasks == 2
\* Number of requests to /api/task/done in a run.
MaxDone == 2

\* --------------------------------------------------------- program constants
max_day == 400
max_wday == 7
max_month == 12

\* ------------------------------------------------------------- civil calendar
\* Days since 1970-01-01 of the first day of month m (1..12) of year y.
DaysBeforeMonth(y, m) ==
    LET yy  == IF m <= 2 THEN y - 1 ELSE y
        era == yy \div 400
        yoe == yy - era * 400
        mp  == IF m > 2 THEN m - 3 ELSE m + 9
        doy == (153 * mp + 2) \div 5
        doe == yoe * 365 + yoe \div 4 - yoe \div 100 + doy
    IN  era * 146097 + doe - 719468

\* DaysBeforeMonth on the months of the modelled calendar, computed once;
\* month m of year y has the index 12 * y + m - 1.
MonthStartTable ==
    [k \in (12 * 2022)..(12 * (MaxYear + 4)) |->
        DaysBeforeMonth(k \div 12, (k % 12) + 1)]

\* First and last day of the modelled calendar.
CalendarFirst == DaysBeforeMonth(2023, 1)
CalendarLast == DaysBeforeMonth(MaxYear + 3, 1)

\* time.Date(y, m, d, 0, 0, 0, 0, UTC): month and day are normalised, so
\* month 13 is January of the next year and day 0 is the last day of the
\* previous month.
GoDate(y, m, d) ==
    LET k == 12 * y + m - 1
    IN  (IF k >= 12 * 2022 /\ k <= 12 * (MaxYear + 4)
         THEN MonthStartTable[k]
         ELSE DaysBeforeMonth(k \div 12, (k % 12) + 1)) + d - 1

\* Year, month and day of month of a day number (Time.Date()).
Civil(n) ==
    LET z   == n + 719468
        era == z \div 146097
        doe == z - era * 146097
        yoe == (doe - doe \div 1460 + doe \div 36524 - doe \div 146096) \div 365
        doy == doe - (365 * yoe + yoe \div 4 - yoe \div 100)
        mp  == (5 * doy + 2) \div 153
        d   == doy - (153 * mp + 2) \div 5 + 1
        m   == IF mp < 10 THEN mp + 3 ELSE mp - 9
        y   == yoe + era * 400 + (IF m <= 2 THEN 1 ELSE 0)
    IN  [year |-> y, month |-> m, day |-> d]

\* Civil on the days of the modelled calendar, computed once.
CivilTable == [n \in CalendarFirst..CalendarLast |-> Civil(n)]

CivilOf(n) ==
    IF n >= CalendarFirst /\ n <= CalendarLast THEN CivilTable[n] ELSE Civil(n)

Year(n) == CivilOf(n).year
Month(n) == CivilOf(n).month
Day(n) == CivilOf(n).day

\* Time.Weekday(): Sunday = 0 ... Saturday = 6 (1970-01-01 was a Thursday).
Weekday(n) == (n + 4) % 7

\* Time.AddDate(years, months, days) on a midnight date.
AddDate(n, years, months, ndays) ==
    GoDate(Year(n) + years, Month(n) + months, Day(n) + ndays)

\* Number of days of month m of year y, as time.Parse validates the day.
DaysIn(y, m) == GoDate(y, m + 1, 1) - GoDate(y, m, 1)

\* ------------------------------------------------------------------- strings
DigitChars == <<"0", "1", "2", "3", "4", "5", "6", "7", "8", "9">>

IsDigit(c) == \E i \in 1..10 : DigitChars[i] = c

DigitVal(c) == (CHOOSE i \in 1..10 : DigitChars[i] = c) - 1

\* Value of a sequence of decimal digits, accumulated left to right.
DigitsVal(s) ==
    LET n[i \in 0..Len(s)] ==
            IF i = 0 THEN 0 ELSE 10 * n[i - 1] + DigitVal(s[i])
    IN  n[Len(s)]

AllDigits(s) == \A i \in 1..Len(s) : IsDigit(s[i])

\* strconv.Atoi: an optional sign followed by at least one decimal digit.
Atoi(s) ==
    LET signed == Len(s) > 0 /\ s[1] \in {"-", "+"}
        body   == IF signed THEN SubSeq(s, 2, Len(s)) ELSE s
    IN  IF Len(body) < 1 \/ ~AllDigits(body)
        THEN [ok |-> FALSE, val |-> 0]
        ELSE [ok |-> TRUE,
              val |-> IF signed /\ s[1] = "-" THEN 0 - DigitsVal(body)
                      ELSE DigitsVal(body)]

\* strings.Split(s, sep) for a one-character separator: the substrings
\* between the separators, read left to right (one empty substring for "").
Split(s, sep) ==
    LET parts[i \in 0..Len(s)] ==
            IF i = 0 THEN << <<>> >>
            ELSE LET prev == parts[i - 1]
                 IN  IF s[i] = sep THEN Append(prev, <<>>)
                     ELSE [prev EXCEPT ![Len(prev)] = Append(@, s[i])]
    IN  parts[Len(s)]

\* A date parser that accepts any day number up to 31 in every month.
ParseDate_anyDay(s) ==
    IF Len(s) = 8 /\ AllDigits(s)
    THEN LET y == DigitsVal(SubSeq(s, 1, 4))
             m == DigitsVal(SubSeq(s, 5, 6))
             d == DigitsVal(SubSeq(s, 7, 8))
         IN  IF m >= 1 /\ m <= 12 /\ d >= 1 /\ d <= 31
             THEN [ok |-> TRUE, day |-> GoDate(y, m, d)]
             ELSE [ok |-> FALSE, day |-> 0]
    ELSE [ok |-> FALSE, day |-> 0]

\* time.Parse("20060102", s): four digits of year, two of month, two of
\* day, nothing else; the month is in 1..12 and the day exists in it.
ParseDate(s) ==
    IF Len(s) = 8 /\ AllDigits(s)
    THEN LET y == DigitsVal(SubSeq(s, 1, 4))
             m == DigitsVal(SubSeq(s, 5, 6))
             d == DigitsVal(SubSeq(s, 7, 8))
         IN  IF m >= 1 /\ m <= 12 /\ d >= 1 /\ d <= DaysIn(y, m)
             THEN [ok |-> TRUE, day |-> GoDate(y, m, d)]
             ELSE [ok |-> FALSE, day |-> 0]
    ELSE [ok |-> FALSE, day |-> 0]

\* Zero-padded decimal of v in w characters.
Pad(v, w) == [i \in 1..w |-> DigitChars[((v \div (10 ^ (w - i))) % 10) + 1]]

\* Time.Format("20060102").
FormatDate(n) == Pad(Year(n), 4) \o Pad(Month(n), 2) \o Pad(Day(n), 2)

\* ------------------------------------------------------------ taskdate helpers
Midnight(n) == [day |-> n, tod |-> 0]

\* Time.After on instants.
After(t, u) == t.day > u.day \/ (t.day = u.day /\ t.tod > u.tod)

\* afterNow with "not before" in place of "after".
afterNow_notBefore(d, n) == ~After(n, Midnight(d))


afterNow(d, n) == After(Midnight(d), n)

lastDayOfMonth(t) == GoDate(Year(t), Month(t) + 1, 0)

\* The loop of parseWeek: ok is FALSE from the first value that is refused.
parseWeek(s) ==
    LET dayStrs == Split(s, ",")
        dayMap[i \in 0..Len(dayStrs)] ==
            IF i = 0 THEN [ok |-> TRUE, set |-> {}]
            ELSE LET prev == dayMap[i - 1]
                     a    == Atoi(dayStrs[i])
                 IN  IF ~prev.ok THEN prev
                     ELSE IF ~a.ok \/ a.val < 1 \/ a.val > max_wday
                     THEN [ok |-> FALSE, set |-> {}]
                     ELSE [ok |-> TRUE, set |-> prev.set \cup {a.val}]
    IN  dayMap[Len(dayStrs)]

\* months is the sequence of tokens after the day list; only the first is read.
parseMonth(months) ==
    IF Len(months) > 0
    THEN LET monthStrs == Split(months[1], ",")
             monthMap[i \in 0..Len(monthStrs)] ==
                 IF i = 0 THEN [ok |-> TRUE, set |-> {}]
                 ELSE LET prev == monthMap[i - 1]
                          a    == Atoi(monthStrs[i])
                      IN  IF ~prev.ok THEN prev
                          ELSE IF ~a.ok \/ a.val < 1 \/ a.val > max_month
                          THEN [ok |-> FALSE, set |-> prev.set]
                          ELSE [ok |-> TRUE, set |-> prev.set \cup {a.val}]
         IN  monthMap[Len(monthStrs)]
    ELSE [ok |-> TRUE, set |-> 1..12]

IsDayNumber(num) == ~(num < -2 \/ num > 32 \/ num = 0)

\* nil and errForamt from the first string that is refused.
stringsToInts(strs) ==
    LET ints[i \in 0..Len(strs)] ==
            IF i = 0 THEN [ok |-> TRUE, ints |-> <<>>]
            ELSE LET prev == ints[i - 1]
                     a    == Atoi(strs[i])
                 IN  IF ~prev.ok THEN prev
                     ELSE IF ~a.ok \/ ~IsDayNumber(a.val)
                     THEN [ok |-> FALSE, ints |-> <<>>]
                     ELSE [ok |-> TRUE, ints |-> Append(prev.ints, a.val)]
    IN  ints[Len(strs)]

\* slices.Sort on a slice of ints.
Sort(s) == SortSeq(s, LAMBDA a, b : a < b)

\* arrangeSpecialDays appending the -1 group before the -2 group.
arrangeSpecialDays_minusOneFirst(ds) ==
    LET regularDays == SelectSeq(ds, LAMBDA d : d # -2 /\ d # -1)
        minusTwo    == SelectSeq(ds, LAMBDA d : d = -2)
        minusOne    == SelectSeq(ds, LAMBDA d : d = -1)
    IN  regularDays \o minusOne \o minusTwo

arrangeSpecialDays(ds) ==
    LET regularDays == SelectSeq(ds, LAMBDA d : d # -2 /\ d # -1)
        minusTwo    == SelectSeq(ds, LAMBDA d : d = -2)
        minusOne    == SelectSeq(ds, LAMBDA d : d = -1)
    IN  regularDays \o minusTwo \o minusOne

parseDays(s) ==
    LET r == stringsToInts(Split(s, ","))
    IN  [ok |-> r.ok, days |-> arrangeSpecialDays(Sort(r.ints))]

\* The target date of entry day of the day list in the month of d; none
\* when the day does not exist in that month.
Target(d, day) ==
    IF day = -1 THEN [some |-> TRUE, day |-> lastDayOfMonth(d)]
    ELSE IF day = -2
    THEN [some |-> TRUE, day |-> AddDate(lastDayOfMonth(d), 0, 0, -1)]
    ELSE IF day > Day(lastDayOfMonth(d)) THEN [some |-> FALSE, day |-> 0]
    ELSE [some |-> TRUE, day |-> GoDate(Year(d), Month(d), day)]

RECURSIVE scanDays(_, _, _, _)
\* The inner loop of findMonthDay: the first entry of ds, in order from
\* entry i, whose target date in the month of d is after n.
scanDays(d, ds, i, n) ==
    IF i > Len(ds) THEN [found |-> FALSE, day |-> 0]
    ELSE LET t == Target(d, ds[i])
         IN  IF t.some /\ After(Midnight(t.day), n)
             THEN [found |-> TRUE, day |-> t.day]
             ELSE scanDays(d, ds, i + 1, n)

\* findMonthDay starting in the month of the start date in every case.
monthStart_noSkip(d, n) == d

\* The scan position findMonthDay starts from.
monthStart(d, n) ==
    IF ~afterNow(d, n)
    THEN AddDate(GoDate(Year(d), Month(d), 1), 0, 1, 0)
    ELSE d

\* The weekday number without renumbering Sunday.
weekdayOf_sundayZero(d) == Weekday(d)

\* int(date.Weekday()) with Sunday renumbered 7.
weekdayOf(d) == IF Weekday(d) = 0 THEN 7 ELSE Weekday(d)

\* The interval check with the upper bound off by one.
intervalOK_offByOne(n) == ~(n < 0 \/ n > max_day + 1)

\* The bound check of the every-N-days interval.
intervalOK(n) == ~(n < 0 \/ n > max_day)

\* ------------------------------------------------------------------- inputs
\* Start strings that are real calendar dates.
ValidStarts ==
    { <<"2", "0", "2", "3", "1", "2", "3", "1">>,
      <<"2", "0", "2", "4", "0", "1", "0", "1">>,
      <<"2", "0", "2", "4", "0", "1", "1", "5">>,
      <<"2", "0", "2", "4", "0", "1", "2", "9">>,
      <<"2", "0", "2", "4", "0", "1", "3", "0">>,
      <<"2", "0", "2", "4", "0", "1", "3", "1">>,
      <<"2", "0", "2", "4", "0", "2", "1", "0">>,
      <<"2", "0", "2", "4", "0", "2", "2", "9">>,
      <<"2", "0", "2", "4", "0", "3", "1", "0">> }

\* Start strings time.Parse refuses.
InvalidStarts ==
    { <<>>,
      <<"2", "0", "2", "4", "0", "1", "1">>,
      <<"2", "0", "2", "4", "0", "1", "1", "5", "5">>,
      <<"2", "0", "2", "4", "O", "1", "1", "5">>,
      <<"2", "0", "2", "4", "0", "2", "3", "0">>,
      <<"2", "0", "2", "3", "0", "2", "2", "9">>,
      <<"2", "0", "2", "4", "1", "3", "0", "1">>,
      <<"2", "0", "2", "4", "0", "1", "0", "0">> }

\* Rules NextDate accepts and answers with a date (the last two carry a
\* trailing token that the code does not read).
AcceptedRepeats ==
    { <<"y">>,
      <<"d", " ", "1">>,
      <<"d", " ", "3">>,
      <<"d", " ", "7">>,
      <<"d", " ", "4", "0", "0">>,
      <<"d", " ", "+", "2">>,
      <<"w", " ", "1", ",", "3">>,
      <<"w", " ", "7">>,
      <<"w", " ", "2", ",", "4", ",", "6">>,
      <<"w", " ", "5", ",", "5">>,
      <<"m", " ", "-", "1">>,
      <<"m", " ", "-", "2">>,
      <<"m", " ", "3", "1", ",", "-", "2">>,
      <<"m", " ", "1", " ", "3", ",", "6">>,
      <<"m", " ", "1", "5">>,
      <<"m", " ", "3", "1">>,
      <<"m", " ", "3", ",", "1", ",", "-", "1", ",", "-", "2">>,
      <<"m", " ", "2", "9", " ", "2">>,
      <<"m", " ", "-", "1", ",", "-", "2", " ", "2">>,
      <<"m", " ", "3", "0", " ", "4", ",", "6">>,
      <<"m", " ", "-", "1", ",", "7", ",", "-", "2", ",", "7", ",", "-", "1">>,
      <<"m", " ", "1", " ", "3", ",", "6", " ", "x">>,
      <<"y", " ", "5">> }

\* Every-N-days rules with N = 0.
ZeroIntervalRepeats ==
    { <<"d", " ", "0">> }

\* Monthly rules listing day 32.
Day32Repeats ==
    { <<"m", " ", "3", "2">>,
      <<"m", " ", "1", ",", "3", "2">> }

\* Monthly rules whose day exists in no allowed month.
UnsatisfiableRepeats ==
    { <<"m", " ", "3", "0", " ", "2">> }

\* Rules outside the documented grammar.
MalformedRepeats ==
    { <<"x">>,
      <<"y", "y">>,
      <<" ", "y">>,
      <<"d">>,
      <<"w">>,
      <<"m">>,
      <<"d", " ">>,
      <<"w", " ">>,
      <<"m", " ">>,
      <<"d", " ", "x">>,
      <<"d", " ", "-", "1">>,
      <<"d", " ", "4", "0", "1">>,
      <<"w", " ", "x">>,
      <<"w", " ", "1", ",", "x">>,
      <<"w", " ", "0">>,
      <<"w", " ", "8">>,
      <<"w", " ", "1", ",", "8">>,
      <<"m", " ", "x">>,
      <<"m", " ", "1", ",", "x">>,
      <<"m", " ", "0">>,
      <<"m", " ", "-", "3">>,
      <<"m", " ", "1", ",", "-", "3">>,
      <<"m", " ", "1", " ", "x">>,
      <<"m", " ", "1", " ", "0">>,
      <<"m", " ", "1", " ", "1", "3">>,
      <<"m", " ", "1", " ", "3", ",", "1", "3">>,
      <<"m", " ", "1", " ", "-", "1">> }


Repeats ==
    {<<>>} \cup AcceptedRepeats \cup ZeroIntervalRepeats \cup Day32Repeats
        \cup UnsatisfiableRepeats \cup MalformedRepeats

Starts == ValidStarts \cup InvalidStarts

\* Calendar dates of the instant now.
NowDates ==
    { <<"2", "0", "2", "3", "1", "2", "2", "0">>,
      <<"2", "0", "2", "4", "0", "1", "0", "1">>,
      <<"2", "0", "2", "4", "0", "1", "0", "5">>,
      <<"2", "0", "2", "4", "0", "1", "2", "0">>,
      <<"2", "0", "2", "4", "0", "1", "3", "1">>,
      <<"2", "0", "2", "4", "0", "2", "1", "5">>,
      <<"2", "0", "2", "4", "0", "3", "0", "1">>,
      <<"2", "0", "2", "4", "0", "4", "0", "2">> }

Nows == {[day |-> ParseDate(s).day, tod |-> t] : s \in NowDates, t \in 0..MaxTod}

\* ---------------------------------------------------------------- machine
\* Cookie "token" of a request: absent, not a JWT, or a JWT signed with key
\* that carries the claim pwd_hash.
NoCookie == [kind |-> "none", key |-> "", pwd_hash |-> ""]

NoReq == [route |-> "none", method |-> "", id |-> 0, cookie |-> NoCookie]

NoTask == [id |-> 0, date |-> <<>>, title |-> "", comment |-> "", repeat |-> <<>>]

NoConc == [method |-> "", id |-> 0, status |-> 0]

vars == <<now, dstart, repeat, pc, date, interval, dmap, month, days, result, err,
          iter, store, nextId, dones, clock, todoPassword, req, status, hpc,
          task, conc>>

\* State of package api and of the store.
api == <<store, nextId, dones, clock, todoPassword, req, status, hpc, task, conc>>

\* No server runs: NextDate is called on its own.
NoServer ==
    /\ store = <<>>
    /\ nextId = 1
    /\ dones = 0
    /\ clock = [day |-> 0, tod |-> 0]
    /\ todoPassword = ""
    /\ req = NoReq
    /\ status = 0
    /\ hpc = "idle"
    /\ task = NoTask
    /\ conc = NoConc

args == <<now, dstart, repeat>>

Init ==
    /\ now \in Nows
    /\ dstart \in Starts
    /\ repeat \in Repeats
    /\ pc = "call"
    /\ date = 0
    /\ interval = 0
    /\ dmap = {}
    /\ month = {}
    /\ days = <<>>
    /\ result = <<>>
    /\ err = FALSE
    /\ iter = 0
    /\ NoServer

\* return res, e
Return(res, e) ==
    /\ pc' = "done"
    /\ result' = res
    /\ err' = e

\* enter the loop p of NextDate
Enter(p) ==
    /\ pc' = p
    /\ UNCHANGED <<result, err>>

\* NextDate without the early return for the empty rule.
isOneTime_never(rep) == FALSE

\* The empty rule is answered before anything is parsed.
isOneTime(rep) == rep = <<>>

\* A rule that NextDate answers with errForamt.
BadRule == [kind |-> "err", interval |-> 0, dmap |-> {}, month |-> {}, days |-> <<>>]

\* The switch of NextDate on rule[0] up to the loop of each case (for "m":
\* findMonthDay up to its use of the date): the loop the rule selects and
\* the values it parses from the rule.
ruleOf(rep) ==
    LET rule    == Split(rep, " ")
        ruleLen == Len(rule)
    IN  CASE rule[1] = <<"y">> -> [BadRule EXCEPT !.kind = "y"]
          [] rule[1] = <<"d">> ->
               IF ruleLen < 2 THEN BadRule
               ELSE LET a == Atoi(rule[2])
                    IN  IF ~a.ok \/ ~intervalOK(a.val) THEN BadRule
                        ELSE [BadRule EXCEPT !.kind = "d", !.interval = a.val]
          [] rule[1] = <<"w">> ->
               IF ruleLen < 2 THEN BadRule
               ELSE LET w == parseWeek(rule[2])
                    IN  IF ~w.ok THEN BadRule
                        ELSE [BadRule EXCEPT !.kind = "w", !.dmap = w.set]
          [] rule[1] = <<"m">> ->
               IF ruleLen < 2 THEN BadRule
               ELSE LET mo == parseMonth(SubSeq(rule, 3, ruleLen))
                        ds == parseDays(rule[2])
                    IN  IF ~mo.ok \/ ~ds.ok THEN BadRule
                        ELSE [BadRule EXCEPT !.kind = "m", !.month = mo.set,
                                             !.days = ds.days]
          [] OTHER -> BadRule

\* ruleOf and ParseDate on the inputs of the model, computed once.
RuleTable == {<<rep, ruleOf(rep)>> : rep \in Repeats \ {<<>>}}

StartTable == {<<s, ParseDate(s)>> : s \in Starts}

parsedRule(rep) ==
    IF \E e \in RuleTable : e[1] = rep
    THEN (CHOOSE e \in RuleTable : e[1] = rep)[2]
    ELSE ruleOf(rep)

parsedStart(s) ==
    IF \E e \in StartTable : e[1] = s
    THEN (CHOOSE e \in StartTable : e[1] = s)[2]
    ELSE ParseDate(s)

\* NextDate up to the first iteration of the loop its rule selects.
NextDateCall ==
    /\ pc = "call"
    /\ UNCHANGED <<api, args, iter>>
    /\ IF isOneTime(repeat)
       THEN Return(<<>>, FALSE) /\ UNCHANGED <<date, interval, dmap, month, days>>
       ELSE IF ~parsedStart(dstart).ok
       THEN Return(<<>>, TRUE) /\ UNCHANGED <<date, interval, dmap, month, days>>
       ELSE /\ IF parsedRule(repeat).kind = "err"
               THEN Return(<<>>, TRUE)
               ELSE Enter(parsedRule(repeat).kind)
            /\ date' = IF parsedRule(repeat).kind = "m"
                       THEN monthStart(parsedStart(dstart).day, now)
                       ELSE parsedStart(dstart).day
            /\ interval' = parsedRule(repeat).interval
            /\ dmap' = parsedRule(repeat).dmap
            /\ month' = parsedRule(repeat).month
            /\ days' = parsedRule(repeat).days

InCalendar == Year(date) <= MaxYear

\* The yearly loop testing the running date before adding to it.
YearStep_testFirst ==
    /\ pc = "y"
    /\ InCalendar
    /\ IF afterNow(date, now)
       THEN Return(FormatDate(date), FALSE) /\ UNCHANGED date
       ELSE date' = AddDate(date, 1, 0, 0) /\ UNCHANGED <<pc, result, err>>
    /\ iter' = 1 - iter
    /\ UNCHANGED <<api, args, interval, dmap, month, days>>

\* One iteration of the loop of case "y".
YearStep ==
    /\ pc = "y"
    /\ InCalendar
    /\ date' = AddDate(date, 1, 0, 0)
    /\ IF afterNow(date', now)
       THEN Return(FormatDate(date'), FALSE)
       ELSE UNCHANGED <<pc, result, err>>
    /\ iter' = 1 - iter
    /\ UNCHANGED <<api, args, interval, dmap, month, days>>

\* The every-N-days loop testing the running date before adding to it.
DayStep_testFirst ==
    /\ pc = "d"
    /\ InCalendar
    /\ IF afterNow(date, now)
       THEN Return(FormatDate(date), FALSE) /\ UNCHANGED date
       ELSE date' = AddDate(date, 0, 0, interval) /\ UNCHANGED <<pc, result, err>>
    /\ iter' = 1 - iter
    /\ UNCHANGED <<api, args, interval, dmap, month, days>>

\* One iteration of the loop of case "d".
DayStep ==
    /\ pc = "d"
    /\ InCalendar
    /\ date' = AddDate(date, 0, 0, interval)
    /\ IF afterNow(date', now)
       THEN Return(FormatDate(date'), FALSE)
       ELSE UNCHANGED <<pc, result, err>>
    /\ iter' = 1 - iter
    /\ UNCHANGED <<api, args, interval, dmap, month, days>>

\* One iteration of the loop of case "w".
WeekStep ==
    /\ pc = "w"
    /\ InCalendar
    /\ date' = AddDate(date, 0, 0, 1)
    /\ IF weekdayOf(date') \in dmap /\ afterNow(date', now)
       THEN Return(FormatDate(date'), FALSE)
       ELSE UNCHANGED <<pc, result, err>>
    /\ iter' = 1 - iter
    /\ UNCHANGED <<api, args, interval, dmap, month, days>>

\* findMonthDay without the month filter.
MonthStep_noFilter ==
    /\ pc = "m"
    /\ InCalendar
    /\ LET s == scanDays(date, days, 1, now)
       IN  IF s.found
           THEN /\ Return(FormatDate(s.day), FALSE)
                /\ UNCHANGED date
           ELSE /\ date' = AddDate(date, 0, 1, 0)
                /\ UNCHANGED <<pc, result, err>>
    /\ iter' = 1 - iter
    /\ UNCHANGED <<api, args, interval, dmap, month, days>>

\* findMonthDay that forgets to advance past a month outside the filter.
MonthStep_noAdvance ==
    /\ pc = "m"
    /\ InCalendar
    /\ IF Month(date) \notin month
       THEN UNCHANGED <<date, pc, result, err>>
       ELSE LET s == scanDays(date, days, 1, now)
            IN  IF s.found
                THEN /\ Return(FormatDate(s.day), FALSE)
                     /\ UNCHANGED date
                ELSE /\ date' = AddDate(date, 0, 1, 0)
                     /\ UNCHANGED <<pc, result, err>>
    /\ iter' = 1 - iter
    /\ UNCHANGED <<api, args, interval, dmap, month, days>>

\* One iteration of the outer loop of findMonthDay.
MonthStep ==
    /\ pc = "m"
    /\ InCalendar
    /\ IF Month(date) \notin month
       THEN /\ date' = AddDate(date, 0, 1, 0)
            /\ UNCHANGED <<pc, result, err>>
       ELSE LET s == scanDays(date, days, 1, now)
            IN  IF s.found
                THEN /\ Return(FormatDate(s.day), FALSE)
                     /\ UNCHANGED date
                ELSE /\ date' = AddDate(date, 0, 1, 0)
                     /\ UNCHANGED <<pc, result, err>>
    /\ iter' = 1 - iter
    /\ UNCHANGED <<api, args, interval, dmap, month, days>>

\* The running date left the modelled calendar: the scan is not followed
\* further.
LeaveCalendar ==
    /\ pc \in {"y", "d", "w", "m"}
    /\ ~InCalendar
    /\ pc' = "horizon"
    /\ UNCHANGED <<api, args, date, interval, dmap, month, days, result, err, iter>>

Next ==
    \/ NextDateCall
    \/ YearStep
    \/ DayStep
    \/ WeekStep
    \/ MonthStep
    \/ LeaveCalendar

Spec == Init /\ [][Next]_vars

\* The loops of NextDate run without waiting on anything: a call that can
\* take a step takes it.
FairSpec == Spec /\ WF_vars(Next)

\* ------------------------------------------------- yearly rule, longer spans
\* Start dates of the yearly runs: Feb 29 of two leap years, the days
\* around it, and a year end.
YearStarts ==
    { <<"2", "0", "2", "0", "0", "2", "2", "9">>, <<"2", "0", "2", "4", "0", "2", "2", "9">>, <<"2", "0", "2", "3", "0", "2", "2", "8">>, <<"2", "0", "2", "4", "0", "2", "2", "8">>, <<"2", "0", "2", "4", "0", "3", "0", "1">>, <<"2", "0", "2", "3", "1", "2", "3", "1">> }

YearRepeats == { <<"y">>, <<"y", " ", "5">> }

YearNowDates == NowDates \cup { <<"2", "0", "2", "7", "0", "6", "0", "1">> }

YearNows ==
    {[day |-> ParseDate(s).day, tod |-> t] : s \in YearNowDates, t \in 0..MaxTod}

YearInit ==
    /\ now \in YearNows
    /\ dstart \in YearStarts
    /\ repeat \in YearRepeats
    /\ pc = "call"
    /\ date = 0
    /\ interval = 0
    /\ dmap = {}
    /\ month = {}
    /\ days = <<>>
    /\ result = <<>>
    /\ err = FALSE
    /\ iter = 0
    /\ NoServer

YearNext ==
    \/ NextDateCall
    \/ YearStep

\* NextDate on yearly rules only.
YearSpec == YearInit /\ [][YearNext]_vars

\* ------------------------------------------------------------ package config
DefaultTestPassword == "1234"

\* getPassword: the value of TODO_PASSWORD, or the default when it is empty.
getPassword(env) == IF env # "" THEN env ELSE DefaultTestPassword

\* config.App.PasswordTest as ConfigServer sets it at start-up.
PasswordTest == getPassword(todoPassword)

\* --------------------------------------------------------------- package db
\* The columns of a task.
Row(t) == [date |-> t.date, title |-> t.title, comment |-> t.comment,
           repeat |-> t.repeat]

\* INSERT: the table with the new row under the next id.
AddTask(st, t) ==
    [i \in DOMAIN st \cup {nextId} |-> IF i = nextId THEN Row(t) ELSE st[i]]

\* SELECT ... WHERE id: found or not, and the task.
GetTaskID(st, i) ==
    IF i \in DOMAIN st
    THEN [ok |-> TRUE,
          task |-> [id |-> i, date |-> st[i].date, title |-> st[i].title,
                    comment |-> st[i].comment, repeat |-> st[i].repeat]]
    ELSE [ok |-> FALSE, task |-> NoTask]

\* UPDATE ... WHERE id: an error when no row was affected.
PutTaskID(st, t) ==
    IF t.id \in DOMAIN st
    THEN [ok |-> TRUE, store |-> [st EXCEPT ![t.id] = Row(t)]]
    ELSE [ok |-> FALSE, store |-> st]

\* DELETE ... WHERE id: an error when no row was affected.
DeleteTaskID(st, i) ==
    IF i \in DOMAIN st
    THEN [ok |-> TRUE, store |-> [j \in DOMAIN st \ {i} |-> st[j]]]
    ELSE [ok |-> FALSE, store |-> st]

\* -------------------------------------------------------------- package api
\* sha256 of a password, hex encoded: distinct passwords, distinct hashes.
Hash(p) == <<"sha256", p>>

\* getToken: a JWT keyed with the hash of the password, carrying that hash.
getToken(p) == [kind |-> "jwt", key |-> Hash(p), pwd_hash |-> Hash(p)]

\* The cookies a request may bring along.
Cookies ==
    { NoCookie,
      [kind |-> "garbage", key |-> "", pwd_hash |-> ""],
      getToken("1234"),
      getToken("secret") }

\* auth: TRUE when the middleware calls the wrapped handler.
auth(cookie) ==
    IF PasswordTest = "" THEN TRUE
    ELSE IF cookie.kind = "none" THEN FALSE
    ELSE IF cookie.kind # "jwt" \/ cookie.key # Hash(PasswordTest) THEN FALSE
    ELSE cookie.pwd_hash = Hash(PasswordTest)

\* http.ResponseWriter.WriteHeader: the first status written is the one
\* the client gets; a later call changes nothing.
WriteHeader(cur, code) == IF cur = 0 THEN code ELSE cur

\* Comparison t.Date >= today of two strings of eight digits: byte order
\* is numeric order.
StrGE(a, b) == DigitsVal(a) >= DigitsVal(b)

\* checkTask: "err" (errTask), "ok" with the task as it is to be stored,
\* or "call" when the date depends on NextDate(now, t.Date, t.Repeat).
checkTask(t) ==
    LET today == FormatDate(clock.day)
    IN  IF t.title = "" THEN [kind |-> "err", task |-> t]
        ELSE IF t.date = <<>>
        THEN [kind |-> "ok", task |-> [t EXCEPT !.date = today]]
        ELSE IF ~parsedStart(t.date).ok THEN [kind |-> "err", task |-> t]
        ELSE IF StrGE(t.date, today) THEN [kind |-> "ok", task |-> t]
        ELSE IF t.repeat = <<>>
        THEN [kind |-> "ok", task |-> [t EXCEPT !.date = today]]
        ELSE [kind |-> "call", task |-> t]

\* Requests: time of the server, environment, and what clients send.
ApiClockDates == { <<"2", "0", "2", "4", "0", "1", "2", "0">> }

TodoPasswords == { "", "secret" }

ApiDates == { <<>>, <<"2", "0", "2", "4", "0", "1", "1", "5">>, <<"2", "0", "2", "4", "0", "2", "1", "0">>, <<"2", "0", "2", "4", "0", "1", "1">> }

ApiRepeats == { <<>>, <<"d", " ", "3">>, <<"d", " ", "x">> }

\* Decoded JSON bodies of /api/task; BadBody stands for a body that is not
\* the JSON of a task.
Bodies ==
    [id : 0..MaxTasks, date : ApiDates, title : {"t"}, comment : {"c"},
     repeat : ApiRepeats]
      \cup [id : 0..MaxTasks, date : {<<"2", "0", "2", "4", "0", "2", "1", "0">>}, title : {""}, comment : {"c"},
            repeat : {<<>>}]

BadBody == [id |-> 0, date |-> <<>>, title |-> "bad", comment |-> "", repeat |-> <<>>]

\* Query parameter id: 0 stands for the empty string.
Ids == 0..MaxTasks

NextDayNows == { <<>>, <<"2", "0", "2", "4", "0", "1", "0", "5">>, <<"2", "0", "2", "4", "O", "1", "1", "5">> }

NextDayDates == { <<"2", "0", "2", "4", "0", "1", "1", "5">> }

NextDayRepeats == { <<"y">>, <<"d", " ", "3">>, <<"w", " ", "7">>, <<"m", " ", "-", "1">>, <<"d", " ", "x">> }

ApiInit ==
    /\ clock \in {[day |-> ParseDate(s).day, tod |-> MaxTod] : s \in ApiClockDates}
    /\ todoPassword \in TodoPasswords
    /\ store = <<>>
    /\ nextId = 1
    /\ dones = 0
    /\ req = NoReq
    /\ status = 0
    /\ hpc = "idle"
    /\ task = NoTask
    /\ conc = NoConc
    /\ now = clock
    /\ dstart = <<>>
    /\ repeat = <<>>
    /\ pc = "idle"
    /\ date = 0
    /\ interval = 0
    /\ dmap = {}
    /\ month = {}
    /\ days = <<>>
    /\ result = <<>>
    /\ err = FALSE
    /\ iter = 0

\* The variables of NextDate between two calls.
engine == <<now, dstart, repeat, pc, date, interval, dmap, month, days, result,
            err, iter>>

\* taskdate.NextDate(n, d, rep) is called by the handler h.
Call(h, n, d, rep) ==
    /\ hpc' = h
    /\ now' = n
    /\ dstart' = d
    /\ repeat' = rep
    /\ pc' = "call"
    /\ UNCHANGED <<date, interval, dmap, month, days, result, err, iter>>

\* NextDate has returned to the handler h.
Returned(h) == hpc = h /\ pc = "done"

\* The handler is through with the values of the call.
Forget ==
    /\ hpc' = "sent"
    /\ now' = clock
    /\ dstart' = <<>>
    /\ repeat' = <<>>
    /\ pc' = "idle"
    /\ date' = 0
    /\ interval' = 0
    /\ dmap' = {}
    /\ month' = {}
    /\ days' = <<>>
    /\ result' = <<>>
    /\ err' = FALSE
    /\ iter' = 0

\* The handler answers with the status code and ends.
Respond(code) ==
    /\ status' = code
    /\ hpc' = "sent"
    /\ UNCHANGED engine

\* auth refusing a request to a protected route: 401.
Unauthorized ==
    /\ hpc = "idle"
    /\ \E r \in {"task", "done"}, c \in Cookies :
          /\ ~auth(c)
          /\ req' = [route |-> r, method |-> "POST", id |-> 0, cookie |-> c]
    /\ Respond(401)
    /\ UNCHANGED <<store, nextId, dones, clock, todoPassword, conc, task>>

\* taskHandler on a method it has no case for: 405.
taskHandler ==
    /\ hpc = "idle"
    /\ \E c \in Cookies :
          /\ auth(c)
          /\ req' = [route |-> "task", method |-> "PATCH", id |-> 0, cookie |-> c]
    /\ Respond(405)
    /\ UNCHANGED <<store, nextId, dones, clock, todoPassword, conc, task>>

\* handleGetTask.
handleGetTask ==
    /\ hpc = "idle"
    /\ \E c \in Cookies, i \in Ids :
          /\ auth(c)
          /\ req' = [route |-> "task", method |-> "GET", id |-> i, cookie |-> c]
          /\ Respond(IF i = 0 \/ ~GetTaskID(store, i).ok THEN 400 ELSE 200)
    /\ UNCHANGED <<store, nextId, dones, clock, todoPassword, conc, task>>

\* handlePostTask up to the answer, or up to the call of NextDate in
\* checkTask.
handlePostTask ==
    /\ hpc = "idle"
    /\ nextId <= MaxTasks
    /\ \E c \in Cookies, b \in {x \in Bodies : x.id = 0} \cup {BadBody} :
        LET ck == checkTask(b)
        IN  /\ auth(c)
            /\ req' = [route |-> "task", method |-> "POST", id |-> 0, cookie |-> c]
            /\ IF b = BadBody \/ ck.kind = "err"
               THEN /\ Respond(400)
                    /\ UNCHANGED <<store, nextId, task>>
               ELSE IF ck.kind = "ok"
               THEN /\ store' = AddTask(store, ck.task)
                    /\ nextId' = nextId + 1
                    /\ Respond(201)
                    /\ UNCHANGED task
                 ELSE /\ Call("post", clock, b.date, b.repeat)
                    /\ task' = b
                    /\ status' = 0
                    /\ UNCHANGED <<store, nextId>>
    /\ UNCHANGED <<dones, clock, todoPassword, conc>>

\* handlePostTask from the return of NextDate in checkTask.
handlePostTaskReturn ==
    /\ Returned("post")
    /\ IF err
       THEN /\ status' = 400
            /\ UNCHANGED <<store, nextId>>
       ELSE /\ store' = AddTask(store, [task EXCEPT !.date = result])
            /\ nextId' = nextId + 1
            /\ status' = 201
    /\ task' = NoTask
    /\ Forget
    /\ UNCHANGED <<dones, clock, todoPassword, conc, req>>

\* handlePutTask up to the answer, or up to the call of NextDate in
\* checkTask.
handlePutTask ==
    /\ hpc = "idle"
    /\ \E c \in Cookies, b \in Bodies \cup {BadBody} :
        LET ck == checkTask(b)
        IN  /\ auth(c)
            /\ req' = [route |-> "task", method |-> "PUT", id |-> b.id, cookie |-> c]
            /\ IF b = BadBody \/ ck.kind = "err"
               THEN /\ Respond(400)
                    /\ UNCHANGED <<store, task>>
               ELSE IF ck.kind = "ok"
               THEN /\ store' = PutTaskID(store, ck.task).store
                    /\ Respond(IF PutTaskID(store, ck.task).ok THEN 200 ELSE 500)
                    /\ UNCHANGED task
                 ELSE /\ Call("put", clock, b.date, b.repeat)
                    /\ task' = b
                    /\ status' = 0
                    /\ UNCHANGED store
    /\ UNCHANGED <<nextId, dones, clock, todoPassword, conc>>

\* handlePutTask from the return of NextDate in checkTask.
handlePutTaskReturn ==
    /\ Returned("put")
    /\ task' = NoTask
    /\ IF err
       THEN /\ status' = 400
            /\ UNCHANGED store
       ELSE /\ store' = PutTaskID(store, [task EXCEPT !.date = result]).store
            /\ status' = IF PutTaskID(store, [task EXCEPT !.date = result]).ok
                         THEN 200 ELSE 500
    /\ Forget
    /\ UNCHANGED <<nextId, dones, clock, todoPassword, conc, req>>

\* handleDeleteTask.
handleDeleteTask ==
    /\ hpc = "idle"
    /\ \E c \in Cookies, i \in Ids :
          /\ auth(c)
          /\ req' = [route |-> "task", method |-> "DELETE", id |-> i, cookie |-> c]
          /\ IF i = 0
             THEN Respond(400) /\ UNCHANGED store
             ELSE /\ store' = DeleteTaskID(store, i).store
                  /\ Respond(IF DeleteTaskID(store, i).ok THEN 200 ELSE 500)
    /\ UNCHANGED <<nextId, dones, clock, todoPassword, conc, task>>

\* handleDoneTask up to the answer, or up to the call of NextDate.  The
\* method test writes 405 and goes on.
handleDoneTask ==
    /\ hpc = "idle"
    /\ dones < MaxDone
    /\ dones' = dones + 1
    /\ \E c \in Cookies, m \in {"POST", "GET"}, i \in Ids :
        LET first == IF m # "POST" THEN 405 ELSE 0
            got   == GetTaskID(store, i)
        IN  /\ auth(c)
            /\ req' = [route |-> "done", method |-> m, id |-> i, cookie |-> c]
            /\ IF i = 0 \/ ~got.ok
               THEN /\ Respond(WriteHeader(first, 400))
                    /\ UNCHANGED <<store, task>>
               ELSE IF got.task.repeat = <<>>
               THEN /\ store' = DeleteTaskID(store, i).store
                    /\ UNCHANGED task
                    /\ Respond(WriteHeader(first,
                                  IF DeleteTaskID(store, i).ok THEN 200 ELSE 500))
               ELSE /\ Call("done", clock, got.task.date, got.task.repeat)
                    /\ task' = got.task
                    /\ status' = first
                    /\ UNCHANGED store
    /\ UNCHANGED <<nextId, clock, todoPassword, conc>>

\* handleDoneTask from the return of NextDate; the result of db.PutTaskID
\* is not looked at.
handleDoneTaskReturn ==
    /\ Returned("done")
    /\ task' = NoTask
    /\ IF err
       THEN /\ status' = WriteHeader(status, 500)
            /\ UNCHANGED store
       ELSE /\ store' = PutTaskID(store, [task EXCEPT !.date = result]).store
            /\ status' = WriteHeader(status, 200)
    /\ Forget
    /\ UNCHANGED <<nextId, dones, clock, todoPassword, conc, req>>

\* nextDayHandler up to the call of NextDate; the route is not behind
\* auth, and the method test writes 405 and goes on.
nextDayHandler ==
    /\ hpc = "idle"
    /\ \E c \in {NoCookie}, m \in {"GET", "POST"}, nowParam \in NextDayNows,
          d \in NextDayDates, rep \in NextDayRepeats :
        LET first == IF m # "GET" THEN 405 ELSE 0
        IN  /\ req' = [route |-> "nextdate", method |-> m, id |-> 0, cookie |-> c]
            /\ IF nowParam # <<>> /\ ~parsedStart(nowParam).ok
               THEN Respond(WriteHeader(first, 400))
               ELSE /\ Call("nextdate",
                            IF nowParam # <<>>
                            THEN Midnight(parsedStart(nowParam).day) ELSE clock,
                            d, rep)
                    /\ status' = first
    /\ UNCHANGED <<store, nextId, dones, clock, todoPassword, conc, task>>

\* nextDayHandler from the return of NextDate.
nextDayHandlerReturn ==
    /\ Returned("nextdate")
    /\ status' = WriteHeader(status, IF err THEN 400 ELSE 200)
    /\ Forget
    /\ UNCHANGED <<store, nextId, dones, clock, todoPassword, conc, req, task>>

\* The response is out; the server waits for the next request.
Close ==
    /\ hpc = "sent"
    /\ hpc' = "idle"
    /\ req' = NoReq
    /\ status' = 0
    /\ conc' = NoConc
    /\ UNCHANGED <<engine, store, nextId, dones, clock, todoPassword, task>>

ApiNext ==
    \/ Close
    \/ Unauthorized
    \/ taskHandler
    \/ handleGetTask
    \/ handlePostTask
    \/ handlePostTaskReturn
    \/ handlePutTask
    \/ handlePutTaskReturn
    \/ handleDeleteTask
    \/ handleDoneTask
    \/ handleDoneTaskReturn
    \/ nextDayHandler
    \/ nextDayHandlerReturn
    \/ NextDateCall
    \/ YearStep
    \/ DayStep
    \/ WeekStep
    \/ MonthStep

\* The server taking one request at a time.
ApiSpec == ApiInit /\ [][ApiNext]_vars

\* net/http serves every connection in a goroutine of its own: while
\* handleDoneTask is between its GetTaskID and its PutTaskID (it holds no
\* lock), another goroutine serves a PUT /api/task whose checkTask does not
\* call NextDate.  taskMutex is free, so the UPDATE is committed at once.
handlePutTaskDuringDone ==
    /\ hpc = "done"
    /\ conc = NoConc
    /\ \E c \in Cookies, b \in Bodies \cup {BadBody} :
        LET ck == checkTask(b)
        IN  /\ auth(c)
            /\ ck.kind # "call"
            /\ IF b = BadBody \/ ck.kind = "err"
               THEN /\ conc' = [method |-> "PUT", id |-> b.id, status |-> 400]
                    /\ UNCHANGED store
               ELSE /\ store' = PutTaskID(store, ck.task).store
                    /\ conc' = [method |-> "PUT", id |-> b.id,
                                status |-> IF PutTaskID(store, ck.task).ok
                                           THEN 200 ELSE 500]
    /\ UNCHANGED <<engine, nextId, dones, clock, todoPassword, req, status, hpc, task>>

\* Another goroutine serves a DELETE /api/task meanwhile.
handleDeleteTaskDuringDone ==
    /\ hpc = "done"
    /\ conc = NoConc
    /\ \E c \in Cookies, i \in Ids :
          /\ auth(c)
          /\ IF i = 0
             THEN /\ conc' = [method |-> "DELETE", id |-> i, status |-> 400]
                  /\ UNCHANGED store
             ELSE /\ store' = DeleteTaskID(store, i).store
                  /\ conc' = [method |-> "DELETE", id |-> i,
                              status |-> IF DeleteTaskID(store, i).ok
                                         THEN 200 ELSE 500]
    /\ UNCHANGED <<engine, nextId, dones, clock, todoPassword, req, status, hpc, task>>

ConcNext ==
    \/ ApiNext
    \/ handlePutTaskDuringDone
    \/ handleDeleteTaskDuringDone

\* The server with two requests in flight.
ConcSpec == ApiInit /\ [][ConcNext]_vars

\* ==================================================================== claims
\* The call has returned a date.
ReturnedDate == pc = "done" /\ ~err /\ result # <<>>

\* The call has returned "", errForamt.
ReturnedFormatError == pc = "done" /\ err /\ result = <<>>

StartDay == ParseDate(dstart).day
ResultDay == ParseDate(result).day

\* Monday = 1 ... Sunday = 7, counted from Monday 2024-01-01.
IsoWeekday(n) == ((n - ParseDate(<<"2", "0", "2", "4", "0", "1", "0", "1">>).day) % 7) + 1

Max(a, b) == IF a >= b THEN a ELSE b

\* C1: whenever NextDate returns a date, the date at midnight is strictly
\* after the instant now, and its calendar day is later than now's.
C1_StrictFuture ==
    ReturnedDate =>
        /\ ParseDate(result).ok
        /\ After(Midnight(ResultDay), now)
        /\ ResultDay > now.day

\* C1 witness: an accepted rule returned the day right after now, with now
\* later than midnight.
C1_Witness ==
    /\ ReturnedDate
    /\ repeat \in AcceptedRepeats
    /\ now.tod > 0
    /\ ResultDay = now.day + 1

\* C2: with an empty repeat string NextDate returns "" and no error, for
\* every now and every start string, valid or not.
C2_NoRepeat ==
    (repeat = <<>> /\ pc # "call") => (pc = "done" /\ result = <<>> /\ ~err)

\* C2 witness: the empty rule was answered for a start that is no date.
C2_Witness ==
    /\ repeat = <<>>
    /\ dstart \in InvalidStarts
    /\ pc = "done"
    /\ ~err

\* C3: every call of NextDate returns; no loop runs forever.  (A scan cut
\* off at the end of the modelled calendar is not counted against it.)
C3_Totality == <>(pc \in {"done", "horizon"})

\* C4: "d 0" with a valid start is answered with FormatError.
C4_RejectsZeroInterval ==
    (repeat \in ZeroIntervalRepeats /\ ParseDate(dstart).ok /\ pc # "call")
        => ReturnedFormatError

\* C5: a monthly rule whose day list has a value above 31 is answered with
\* FormatError.
C5_RejectsDayAbove31 ==
    (repeat \in Day32Repeats /\ ParseDate(dstart).ok /\ pc # "call")
        => ReturnedFormatError

\* C6: with a valid start, a rule with an unknown first token, a missing
\* value token, or a non-numeric or out-of-range value is answered with
\* FormatError and never with a date.
C6_RejectedInputs ==
    (repeat \in MalformedRepeats /\ ParseDate(dstart).ok /\ pc # "call")
        => ReturnedFormatError

\* C6 witness: "d 401" was refused for a valid start.
C6_Witness ==
    /\ repeat = <<"d", " ", "4", "0", "1">>
    /\ dstart \in ValidStarts
    /\ ReturnedFormatError

\* C7: with a non-empty rule, well-formed or not, a start string that is
\* not a real YYYYMMDD date is answered with FormatError.
C7_InvalidStart ==
    (repeat # <<>> /\ dstart \in InvalidStarts /\ pc # "call")
        => ReturnedFormatError

\* C7 witness: Feb 30 was refused under a well-formed rule.
C7_Witness ==
    /\ repeat \in AcceptedRepeats
    /\ dstart = <<"2", "0", "2", "4", "0", "2", "3", "0">>
    /\ ReturnedFormatError

\* C8: start 20240115 with "m -1" returns 20240131 for now = 20240120 and
\* 20240229 for now = 20240131.
C8_MonthlyEarliest ==
    (pc = "done" /\ dstart = <<"2", "0", "2", "4", "0", "1", "1", "5">> /\ repeat = <<"m", " ", "-", "1">>) =>
        /\ now.day = ParseDate(<<"2", "0", "2", "4", "0", "1", "2", "0">>).day => result = <<"2", "0", "2", "4", "0", "1", "3", "1">>
        /\ now.day = ParseDate(<<"2", "0", "2", "4", "0", "1", "3", "1">>).day => result = <<"2", "0", "2", "4", "0", "2", "2", "9">>

\* The weekly rules of AcceptedRepeats with the weekday sets they denote.
WeeklyCases ==
    { <<<<"w", " ", "1", ",", "3">>, {1, 3}>>,
      <<<<"w", " ", "7">>, {7}>>,
      <<<<"w", " ", "2", ",", "4", ",", "6">>, {2, 4, 6}>>,
      <<<<"w", " ", "5", ",", "5">>, {5}>> }

\* C9: a weekly rule returns the earliest date after both start and now
\* whose weekday is listed; it is at most 7 days after the later of the
\* two; 20240101 with "w 1,3" and now = 20240101 gives 20240103.
C9_WeeklySelection ==
    \A c \in WeeklyCases :
        (repeat = c[1] /\ ParseDate(dstart).ok /\ pc \in {"done", "horizon"}) =>
            LET lo == Max(StartDay, now.day)
            IN  /\ ReturnedDate
                /\ ParseDate(result).ok
                /\ ResultDay > StartDay
                /\ ResultDay > now.day
                /\ IsoWeekday(ResultDay) \in c[2]
                /\ ResultDay <= lo + 7
                /\ \A n \in (lo + 1)..(ResultDay - 1) : IsoWeekday(n) \notin c[2]
                /\ (dstart = <<"2", "0", "2", "4", "0", "1", "0", "1">> /\ repeat = <<"w", " ", "1", ",", "3">>
                      /\ now.day = ParseDate(<<"2", "0", "2", "4", "0", "1", "0", "1">>).day)
                     => result = <<"2", "0", "2", "4", "0", "1", "0", "3">>

\* C9 witness: a weekly rule returned a Sunday for a start far before now.
C9_Witness ==
    /\ repeat = <<"w", " ", "7">>
    /\ ReturnedDate
    /\ StartDay + 7 < now.day
    /\ IsoWeekday(ResultDay) = 7

\* The every-N-days rules of AcceptedRepeats with their N.
IntervalCases ==
    { <<<<"d", " ", "1">>, 1>>, <<<<"d", " ", "3">>, 3>>, <<<<"d", " ", "7">>, 7>>, <<<<"d", " ", "4", "0", "0">>, 400>>, <<<<"d", " ", "+", "2">>, 2>> }

\* C10: "d N" returns start + k*N days for the smallest k >= 1 that lies
\* after now; 20240101 with "d 3" and now = 20240105 gives 20240107.
C10_IntervalAdvance ==
    \A c \in IntervalCases :
        (repeat = c[1] /\ ParseDate(dstart).ok /\ pc \in {"done", "horizon"}) =>
            /\ ReturnedDate
            /\ ParseDate(result).ok
            /\ \E k \in 1..(Max(0, now.day - StartDay) + 1) :
                  /\ ResultDay = StartDay + k * c[2]
                  /\ ResultDay > now.day
                  /\ k = 1 \/ StartDay + (k - 1) * c[2] <= now.day
            /\ (dstart = <<"2", "0", "2", "4", "0", "1", "0", "1">> /\ repeat = <<"d", " ", "3">>
                  /\ now.day = ParseDate(<<"2", "0", "2", "4", "0", "1", "0", "5">>).day)
                 => result = <<"2", "0", "2", "4", "0", "1", "0", "7">>

\* C10 witness: the interval was added once to a start already after now.
C10_Witness ==
    /\ \E c \in IntervalCases : repeat = c[1] /\ ResultDay = StartDay + c[2]
    /\ ParseDate(dstart).ok
    /\ ReturnedDate
    /\ StartDay > now.day

\* Months counted from year 0, so that consecutive calendar months differ
\* by one.
MonthIndex(n) == 12 * Year(n) + Month(n)

\* C11: "y" adds one year at a time, at least once, and returns the first
\* running date after now; the result has start's month and day, except
\* that a Feb-29 start gives Mar 1 in every result year, leap or not;
\* 20240229 with now = 20240301 gives 20250301.
C11_YearlyAdvance ==
    (pc = "done" /\ repeat \in YearRepeats /\ ParseDate(dstart).ok) =>
        LET s      == Civil(StartDay)
            feb29  == s.month = 2 /\ s.day = 29
            em     == IF feb29 THEN 3 ELSE s.month
            ed     == IF feb29 THEN 1 ELSE s.day
            k      == Civil(ResultDay).year - s.year
        IN  /\ ReturnedDate
            /\ ParseDate(result).ok
            /\ k >= 1
            /\ Civil(ResultDay).month = em
            /\ Civil(ResultDay).day = ed
            /\ ResultDay > now.day
            /\ k = 1 \/ DaysBeforeMonth(s.year + k - 1, em) + ed - 1 <= now.day
            /\ (dstart = <<"2", "0", "2", "4", "0", "2", "2", "9">> /\ now.day = ParseDate(<<"2", "0", "2", "4", "0", "3", "0", "1">>).day)
                 => result = <<"2", "0", "2", "5", "0", "3", "0", "1">>

\* C11 witness: a Feb-29 start answered with Mar 1 of the leap year 2028.
C11_Witness ==
    /\ pc = "done"
    /\ repeat = <<"y">>
    /\ dstart = <<"2", "0", "2", "4", "0", "2", "2", "9">>
    /\ result = <<"2", "0", "2", "8", "0", "3", "0", "1">>

\* The monthly rules of AcceptedRepeats that carry a month list, with the
\* months they list.
MonthFilterCases ==
    { <<<<"m", " ", "1", " ", "3", ",", "6">>, {3, 6}>>,
      <<<<"m", " ", "1", " ", "3", ",", "6", " ", "x">>, {3, 6}>>,
      <<<<"m", " ", "2", "9", " ", "2">>, {2}>>,
      <<<<"m", " ", "-", "1", ",", "-", "2", " ", "2">>, {2}>>,
      <<<<"m", " ", "3", "0", " ", "4", ",", "6">>, {4, 6}>> }

\* C12: a monthly rule with a month list returns dates in listed months
\* only; "m 1 3,6" with start before March and now in February of the same
\* year gives March 1st of that year.
C12_MonthFilter ==
    \A c \in MonthFilterCases :
        (repeat = c[1] /\ ReturnedDate) =>
            /\ ParseDate(result).ok
            /\ Civil(ResultDay).month \in c[2]
            /\ (repeat = <<"m", " ", "1", " ", "3", ",", "6">>
                  /\ Civil(StartDay).year = 2024 /\ Civil(StartDay).month < 3
                  /\ Civil(now.day).year = 2024 /\ Civil(now.day).month = 2)
                 => result = <<"2", "0", "2", "4", "0", "3", "0", "1">>

\* C12 witness: "m 1 3,6" with a January start and now in February gave
\* March 1st.
C12_Witness ==
    /\ ReturnedDate
    /\ repeat = <<"m", " ", "1", " ", "3", ",", "6">>
    /\ dstart = <<"2", "0", "2", "4", "0", "1", "1", "5">>
    /\ now.day = ParseDate(<<"2", "0", "2", "4", "0", "2", "1", "5">>).day
    /\ result = <<"2", "0", "2", "4", "0", "3", "0", "1">>

\* C15: the monthly scan goes from each calendar month to the next one;
\* no month is passed over.
C15_NoMonthSkipped ==
    [][(pc = "m" /\ pc' = "m") => MonthIndex(date') = MonthIndex(date) + 1]_vars

\* The monthly rules of AcceptedRepeats and Day32Repeats with the day
\* values of their lists, in the order written.
DayListCases ==
    { <<<<"m", " ", "-", "1">>, <<-1>>, <<-1>>>>,
      <<<<"m", " ", "-", "2">>, <<-2>>, <<-2>>>>,
      <<<<"m", " ", "3", "1", ",", "-", "2">>, <<31, -2>>, <<31, -2>>>>,
      <<<<"m", " ", "1", " ", "3", ",", "6">>, <<1>>, <<1>>>>,
      <<<<"m", " ", "1", "5">>, <<15>>, <<15>>>>,
      <<<<"m", " ", "3", ",", "1", ",", "-", "1", ",", "-", "2">>, <<3, 1, -1, -2>>, <<1, 3, -2, -1>>>>,
      <<<<"m", " ", "-", "1", ",", "-", "2", " ", "2">>, <<-1, -2>>, <<-2, -1>>>>,
      <<<<"m", " ", "-", "1", ",", "7", ",", "-", "2", ",", "7", ",", "-", "1">>, <<-1, 7, -2, 7, -1>>, <<7, 7, -2, -1, -1>>>>,
      <<<<"m", " ", "1", ",", "3", "2">>, <<1, 32>>, <<1, 32>>>> }

\* Number of entries of the sequence q equal to v.
Count(q, v) == Cardinality({i \in 1..Len(q) : q[i] = v})

\* Position of a day value in the order of Monthly.days: the positive days
\* by value, then -2, then -1.
DayRank(v) == IF v = -2 THEN 100 ELSE IF v = -1 THEN 101 ELSE v

\* C16: the day list parseDays hands to the scan holds the positive days
\* in ascending order, then every -2, then every -1, and is a rearrangement
\* of the list as written.
C16_DaysOrdering ==
    \A c \in DayListCases :
        (repeat = c[1] /\ pc \notin {"call"} /\ ParseDate(dstart).ok) =>
            /\ days = c[3]
            /\ Len(days) = Len(c[2])
            /\ \A v \in -2..32 : Count(days, v) = Count(c[2], v)
            /\ \A i \in 1..Len(days) : \A j \in i..Len(days) :
                  DayRank(days[i]) <= DayRank(days[j])

\* C16 witness: a list written with duplicates and the special days first
\* was handed to the scan.
C16_Witness ==
    /\ repeat = <<"m", " ", "-", "1", ",", "7", ",", "-", "2", ",", "7", ",", "-", "1">>
    /\ pc = "m"
    /\ days = <<7, 7, -2, -1, -1>>

\* The rule is a monthly rule that NextDate accepts.
IsMonthlyRule == parsedRule(repeat).kind = "m"

\* C17: when start is not after now the monthly scan begins on the first
\* day of the month after start's month and the result lies after start's
\* month; when start is after now the scan begins at start and the result
\* lies in start's month or later.
C17_MonthlyStartPosition ==
    [][ /\ (pc = "call" /\ pc' = "m") =>
             IF After(Midnight(StartDay), now)
             THEN date' = StartDay
             ELSE /\ MonthIndex(date') = MonthIndex(StartDay) + 1
                  /\ Day(date') = 1
        /\ (pc = "m" /\ pc' = "done") =>
             IF After(Midnight(StartDay), now)
             THEN MonthIndex(ParseDate(result').day) >= MonthIndex(StartDay)
             ELSE MonthIndex(ParseDate(result').day) > MonthIndex(StartDay)
      ]_vars

\* C17 witness: start and now in the same month, start first; the result
\* lies in the next month.
C17_Witness ==
    /\ ReturnedDate
    /\ repeat = <<"m", " ", "3", "1", ",", "-", "2">>
    /\ dstart = <<"2", "0", "2", "4", "0", "1", "1", "5">>
    /\ now.day = ParseDate(<<"2", "0", "2", "4", "0", "1", "2", "0">>).day
    /\ MonthIndex(ResultDay) = MonthIndex(StartDay) + 1

\* The monthly rules of AcceptedRepeats: each lists a day that exists in
\* an allowed month of some year.
SatisfiableMonthly ==
    { <<"m", " ", "-", "1">>, <<"m", " ", "-", "2">>, <<"m", " ", "3", "1", ",", "-", "2">>, <<"m", " ", "1", " ", "3", ",", "6">>, <<"m", " ", "1", "5">>, <<"m", " ", "3", "1">>, <<"m", " ", "3", ",", "1", ",", "-", "1", ",", "-", "2">>,
      <<"m", " ", "2", "9", " ", "2">>, <<"m", " ", "-", "1", ",", "-", "2", " ", "2">>, <<"m", " ", "3", "0", " ", "4", ",", "6">>, <<"m", " ", "-", "1", ",", "7", ",", "-", "2", ",", "7", ",", "-", "1">>, <<"m", " ", "1", " ", "3", ",", "6", " ", "x">> }

\* C18: for a monthly rule with a day that exists in an allowed month,
\* NextDate eventually returns a date, for every valid start and every now.
C18_MonthlyTermination ==
    (repeat \in SatisfiableMonthly /\ ParseDate(dstart).ok) => <>ReturnedDate

\* C18 witness: "m 29 2" was answered with the next Feb 29, four years on.
C18_Witness ==
    /\ ReturnedDate
    /\ repeat = <<"m", " ", "2", "9", " ", "2">>
    /\ dstart = <<"2", "0", "2", "4", "0", "3", "1", "0">>
    /\ result = <<"2", "0", "2", "8", "0", "2", "2", "9">>

\* This step ends a run of handleDoneTask (auth let the request through).
DoneEnds == hpc' = "sent" /\ req'.route = "done" /\ status' # 401

\* C13: handleDoneTask on the id of a stored task removes the task when
\* its repeat is empty; otherwise the task stays, its date becomes the date
\* NextDate returns and its other fields stay; no other task changes.
C13_DoneFrame ==
    [][(DoneEnds /\ req'.id \in DOMAIN store) =>
          IF store[req'.id].repeat = <<>>
          THEN /\ DOMAIN store' = DOMAIN store \ {req'.id}
               /\ \A j \in DOMAIN store' : store'[j] = store[j]
          ELSE /\ DOMAIN store' = DOMAIN store
               /\ \A j \in DOMAIN store \ {req'.id} : store'[j] = store[j]
               /\ ~err
               /\ store'[req'.id] = [store[req'.id] EXCEPT !.date = result]
      ]_vars

\* C14: with TODO_PASSWORD not set, a request without the token cookie to
\* a route behind auth reaches the wrapped handler: it is not answered 401.
C14_NoPasswordNoAuth ==
    (todoPassword = "" /\ hpc = "sent" /\ req.route \in {"task", "done"}
        /\ req.cookie = NoCookie)
      => status # 401

\* C19: a FormatError of NextDate reaches the client as a 4xx status in
\* every handler that calls it, and no task with a malformed repeat rule
\* gets into the store, whatever its date.
C19_FormatErrorIsClientError ==
    [][ /\ (hpc \in {"post", "put", "done", "nextdate"} /\ pc = "done" /\ err
               /\ hpc' = "sent")
             => status' \in 400..499
        /\ \A i \in DOMAIN store' :
              store'[i].repeat = <<>> \/ ruleOf(store'[i].repeat).kind # "err"
      ]_vars

\* C20: handleDoneTask answers a request whose method is not POST with 405
\* and leaves the store as it is.
C20_DoneOnlyPost ==
    [][(DoneEnds /\ req'.method # "POST") =>
          (status' = 405 /\ store' = store)]_vars

\* C21: for a valid start, the date NextDate returns is later than start,
\* also when start is after now; so the stored date of a recurring task
\* that is marked done moves forward.
C21_LaterThanStart ==
    (ReturnedDate /\ ParseDate(dstart).ok) =>
        (ParseDate(result).ok /\ ResultDay > StartDay)

\* The date the day value v denotes in the calendar month of the day r:
\* the day numbered v if the month has it, the last day for -1, the day
\* before the last day for -2.
Denoted(r, v) ==
    LET first == r - Civil(r).day + 1
        len   == DaysIn(Civil(r).year, Civil(r).month)
    IN  IF v = -1 THEN [some |-> TRUE, day |-> first + len - 1]
        ELSE IF v = -2 THEN [some |-> TRUE, day |-> first + len - 2]
        ELSE IF v >= 1 /\ v <= len THEN [some |-> TRUE, day |-> first + v - 1]
        ELSE [some |-> FALSE, day |-> 0]

\* C22: a monthly rule returns the earliest date after now among the dates
\* its day list denotes in the month of the result, the dates of -1 and -2
\* included.
C22_EarliestInMonth ==
    \A c \in DayListCases :
        (repeat = c[1] /\ ReturnedDate /\ ParseDate(result).ok) =>
            \A i \in 1..Len(c[2]) :
                (Denoted(ResultDay, c[2][i]).some
                   /\ After(Midnight(Denoted(ResultDay, c[2][i]).day), now))
                  => ResultDay <= Denoted(ResultDay, c[2][i]).day

\* C23: handleDoneTask on a recurring task, finishing while or after another
\* goroutine edited or deleted the same task, leaves the title, comment and
\* repeat the store holds as they are and writes to no deleted task.
C23_DoneSerialized ==
    [][(hpc = "done" /\ hpc' = "sent") =>
          IF req.id \in DOMAIN store
          THEN /\ req.id \in DOMAIN store'
               /\ store'[req.id].title = store[req.id].title
               /\ store'[req.id].comment = store[req.id].comment
               /\ store'[req.id].repeat = store[req.id].repeat
          ELSE store' = store]_vars
====
